---- MODULE Spec2Model ----
(***************************************************************************)
(* Model of g2t.py: mapping of genomic positions to transcript positions.  *)
(*   init_db / process_row            the per-row overlap query (worker)   *)
(*   map_genomic_to_transcript        dispatch, collection, external tool, *)
(*                                    left join with the labels            *)
(*   main                             train / val partitioning             *)
(***************************************************************************)
EXTENDS Integers, Sequences, FiniteSets, TLC

(***************************************************************************)
(* Bounds of the model.                                                    *)
(***************************************************************************)
MaxRows == 2
MaxWorkers == 2
MaxFeatures == 2
MaxG2T == 2
MaxMapped == 2

(***************************************************************************)
(* Values.  None is Python's None, NaN the missing value of pandas.        *)
(***************************************************************************)
None == "<None>"
NaN == "<NaN>"

Chroms == {"1", "2"}
Strands == {"+", "-"}
Labels == {"X", "Y"}
Positions == {1000, 1100}
TranscriptIds == {"T1", "T2"}

\* A row of the input table: chrom, pos, strand, label.
Row(c, p, s, l) == [chrom |-> c, pos |-> p, strand |-> s, label |-> l]

AllRows == [chrom : Chroms, pos : Positions, strand : Strands, label : Labels]

\* A feature of the annotation store.  transcript_id is the value list of
\* the attribute: None when the attribute is missing, "" when it is empty.
Feature(c, a, b, s, ft, t) ==
    [seqid |-> c, start |-> a, end |-> b, strand |-> s, featuretype |-> ft,
     transcript_id |-> t]

AllFeatures ==
    { Feature(c, iv[1], iv[2], s, ft, t) :
        c \in Chroms, iv \in {<<900, 1100>>, <<1001, 1100>>}, s \in Strands,
        ft \in {"exon", "CDS"}, t \in TranscriptIds \cup {None, ""} }

\* Sequences over S of length lo..hi.
SeqsOf(S, lo, hi) == UNION { [1..n -> S] : n \in lo..hi }

\* The rows of seq without those that Same equates with an earlier row.
drop_duplicates(seq, Same(_, _)) ==
    LET keep == { k \in 1..Len(seq) : \A j \in 1..(k - 1) : ~Same(seq[j], seq[k]) }
        RECURSIVE pick(_)
        pick(k) == IF k > Len(seq) THEN <<>>
                   ELSE IF k \in keep THEN <<seq[k]>> \o pick(k + 1) ELSE pick(k + 1)
    IN  pick(1)

RECURSIVE Concat(_)
Concat(ss) == IF ss = <<>> THEN <<>> ELSE Head(ss) \o Concat(Tail(ss))

(***************************************************************************)
(* The annotation store: db.region(region=(chrom, start, end),             *)
(* featuretype=ft) yields, in store order, the features of that type on    *)
(* chrom that overlap the closed interval [start, end].                    *)
(***************************************************************************)
Overlaps(f, chrom, start, end) ==
    /\ f.seqid = chrom
    /\ f.start <= end
    /\ f.end >= start

region(db, chrom, start, end, featuretype) ==
    SelectSeq(db, LAMBDA f : f.featuretype = featuretype /\ Overlaps(f, chrom, start, end))

\* exon.attributes.get('transcript_id', [None])[0]
attributes_get(exon) == exon.transcript_id

\* Truthy without the test of line 30: every value passes.
Truthy_always(t) == TRUE

\* Python truth value of a transcript id: None and "" are false.
Truthy(t) == t # None /\ t # ""

MappedRecord(t, p, l) == [transcript_id |-> t, genomic_position |-> p, label |-> l]

\* process_loop without the strand test of line 27.
RECURSIVE process_loop_any_strand(_, _, _, _, _)
process_loop_any_strand(exons, strand, pos, label, results) ==
    IF exons = <<>> THEN results
    ELSE LET exon == Head(exons)
             transcript_id == attributes_get(exon)
         IN  IF Truthy(transcript_id)
             THEN process_loop_any_strand(Tail(exons), strand, pos, label,
                                          Append(results, MappedRecord(transcript_id, pos, label)))
             ELSE process_loop_any_strand(Tail(exons), strand, pos, label, results)

\* The loop of process_row over the features the query returned.
RECURSIVE process_loop(_, _, _, _, _)
process_loop(exons, strand, pos, label, results) ==
    IF exons = <<>> THEN results
    ELSE LET exon == Head(exons)
             transcript_id == attributes_get(exon)
         IN  IF exon.strand # strand
             THEN process_loop(Tail(exons), strand, pos, label, results)
             ELSE IF Truthy(transcript_id)
                  THEN process_loop(Tail(exons), strand, pos, label,
                                    Append(results, MappedRecord(transcript_id, pos, label)))
                  ELSE process_loop(Tail(exons), strand, pos, label, results)

(***************************************************************************)
(* process_row(row_dict) on a worker whose store holds db.  fault is what  *)
(* the store does while serving the query:                                 *)
(*   "none"  it serves the query;                                          *)
(*   "call"  the call db.region(...) raises (inside the try);              *)
(*   "iter"  the returned iterable raises when the loop draws from it      *)
(*           (outside the try).                                            *)
(* The outcome is the returned list, or an exception leaving the task.     *)
(***************************************************************************)
Faults == {"none", "call", "iter"}

Returned(v) == [raised |-> FALSE, value |-> v]
Raised == [raised |-> TRUE, value |-> <<>>]

process_row(row_dict, db, fault) ==
    LET chrom == row_dict.chrom
        pos == row_dict.pos       \* int(...) of an integer position
        strand == row_dict.strand
        label == row_dict.label
    IN  IF fault = "call" THEN Returned(<<>>)
        ELSE IF fault = "iter" THEN Raised
        ELSE Returned(process_loop(region(db, chrom, pos, pos, "exon"),
                                   strand, pos, label, <<>>))

(***************************************************************************)
(* The external tool, gppy g2t: a black box that answers a row             *)
(* (transcript_id, genomic_position) with one row                          *)
(* (transcript_id, genomic_position, transcript_position, feature).        *)
(***************************************************************************)
TransformedRecord(t, p, tp, f) ==
    [transcript_id |-> t, genomic_position |-> p, transcript_position |-> tp, feature |-> f]

ToolPosition(t, p) == IF t = "T1" THEN p - 950 ELSE p - 900

RECURSIVE gppy_g2t(_)
gppy_g2t(pairs) ==
    IF pairs = <<>> THEN <<>>
    ELSE <<TransformedRecord(Head(pairs)[1], Head(pairs)[2],
                             ToolPosition(Head(pairs)[1], Head(pairs)[2]), "exon")>>
         \o gppy_g2t(Tail(pairs))

Prefixes(s) == { SubSeq(s, 1, n) : n \in 0..Len(s) }

(***************************************************************************)
(* gppy_input_df[["transcript_id", "genomic_position"]].to_csv(...,        *)
(* header=False): one line per row of the frame, in frame order.           *)
(***************************************************************************)
\* to_csv_pairs after drop_duplicates() on the two key columns.
to_csv_pairs_dedup(df) ==
    drop_duplicates([k \in 1..Len(df) |-> <<df[k].transcript_id, df[k].genomic_position>>],
                    LAMBDA a, b : a = b)

\* to_csv_pairs after drop_duplicates(subset="transcript_id").
to_csv_pairs_unique_transcripts(df) ==
    drop_duplicates([k \in 1..Len(df) |-> <<df[k].transcript_id, df[k].genomic_position>>],
                    LAMBDA a, b : a[1] = b[1])

RECURSIVE to_csv_pairs(_)
to_csv_pairs(df) ==
    IF df = <<>> THEN <<>>
    ELSE <<<<Head(df).transcript_id, Head(df).genomic_position>>>> \o to_csv_pairs(Tail(df))

(***************************************************************************)
(* pd.merge(g2t_df, gppy_input_df, on=[transcript_id, genomic_position],   *)
(* how="left"): for each left row in order, one output row per right row   *)
(* with the same key, in right order; one row with a missing label when    *)
(* no right row has the key.                                               *)
(***************************************************************************)
FinalRecord(g, l) ==
    [transcript_id |-> g.transcript_id, genomic_position |-> g.genomic_position,
     transcript_position |-> g.transcript_position, feature |-> g.feature, label |-> l]

SameKey(g, m) ==
    /\ g.transcript_id = m.transcript_id
    /\ g.genomic_position = m.genomic_position

\* fan_out keeping the first match only.
fan_out_first(g, matches) == <<FinalRecord(g, Head(matches).label)>>

RECURSIVE fan_out(_, _)
fan_out(g, matches) ==
    IF matches = <<>> THEN <<>>
    ELSE <<FinalRecord(g, Head(matches).label)>> \o fan_out(g, Tail(matches))

\* left_row of an inner join: a left row without a match is dropped.
left_row_inner(g, right) ==
    fan_out(g, SelectSeq(right, LAMBDA m : SameKey(g, m)))

left_row(g, right) ==
    LET matches == SelectSeq(right, LAMBDA m : SameKey(g, m))
    IN  IF matches = <<>> THEN <<FinalRecord(g, NaN)>> ELSE fan_out(g, matches)

RECURSIVE merge(_, _)
merge(left, right) ==
    IF left = <<>> THEN <<>>
    ELSE left_row(Head(left), right) \o merge(Tail(left), right)

(***************************************************************************)
(* State of one program run.                                               *)
(***************************************************************************)
VARIABLES
    main_input_df,  \* main: the table built from the input CSV
    val_chroms,     \* main: args.val_chroms
    annotation,     \* content of the annotation store behind db_path
    main_pc,        \* main: "start", the partition of the current call, "done"
    pc,             \* position inside map_genomic_to_transcript; "raised" once
                    \* an exception has left it and ended the program
    input_df,       \* map_genomic_to_transcript: the rows of this call
    futures,        \* one future per submitted row
    workers,        \* per worker process of the pool: its global db, how often
                    \* it has opened the store, how many tasks it has executed
    records,        \* the list the coordinator collects into
    pbar,           \* the progress count
    order,          \* history: the futures in the order they were collected
    gppy_input_df,  \* the frame built from records
    tool,           \* the gppy subprocess
    g2t_df,         \* the parsed tool output
    final_df,       \* the merged frame
    files,          \* the three output files of each output folder
    error           \* the exception that ended the run, if any

vars == <<main_input_df, val_chroms, annotation, main_pc, pc, input_df, futures,
          workers, records, pbar, order, gppy_input_df, tool, g2t_df, final_df,
          files, error>>

Workers == 1..MaxWorkers
Partitions == {"train", "val", "all"}

NoFile == [exists |-> FALSE, rows |-> <<>>]
File(rows) == [exists |-> TRUE, rows |-> rows]
NoFiles == [gppy_input |-> NoFile, gppy_output |-> NoFile, labeled |-> NoFile]

NoWorker == [db |-> "unset", opens |-> 0, tasks |-> 0]

NoTool == [state |-> "none", returncode |-> 0]

\* The annotation and the input rows of the pipeline runs.
ExampleAnnotation ==
    << Feature("1", 900, 1100, "+", "exon", "T1"),
       Feature("1", 1001, 1100, "+", "exon", "T2"),
       Feature("1", 900, 1100, "+", "exon", None),
       Feature("1", 900, 1100, "+", "CDS", "T2"),
       Feature("2", 900, 1100, "-", "exon", "T2") >>

InputRows ==
    { Row("1", 1000, "+", "X"), Row("1", 1000, "+", "Y"), Row("1", 1100, "+", "X"),
      Row("2", 1000, "-", "Y"), Row("2", 1000, "+", "X") }

Init ==
    /\ main_input_df \in SeqsOf(InputRows, 0, MaxRows)
    /\ val_chroms \in SUBSET Chroms
    /\ annotation = ExampleAnnotation
    /\ main_pc = "start"
    /\ pc = "idle"
    /\ input_df = <<>>
    /\ futures = <<>>
    /\ workers = [w \in Workers |-> NoWorker]
    /\ records = <<>>
    /\ pbar = 0
    /\ order = <<>>
    /\ gppy_input_df = <<>>
    /\ tool = NoTool
    /\ g2t_df = <<>>
    /\ final_df = <<>>
    /\ files = [p \in Partitions |-> NoFiles]
    /\ error = "none"

(***************************************************************************)
(* main: the partitioning and the calls of map_genomic_to_transcript.      *)
(***************************************************************************)
\* input_df[input_df["chrom"].isin(val_chroms)] and its complement.
isin(row, chroms) == row.chrom \in chroms

\* train_df without the negation of the mask: the whole table.
train_df_unmasked(df, chroms) == df

val_df(df, chroms) == SelectSeq(df, LAMBDA row : isin(row, chroms))
train_df(df, chroms) == SelectSeq(df, LAMBDA row : ~isin(row, chroms))

\* executor.submit(process_row, row._asdict()) for each row of the frame.
submit(df) ==
    [i \in 1..Len(df) |->
       [row |-> df[i], state |-> "pending", fault |-> "none", outcome |-> Returned(<<>>),
        collected |-> FALSE]]

\* Lines 40-63 of a call: the pool is created and one future is submitted
\* per row of the frame; records starts empty.
call_map(part, df) ==
    /\ main_pc' = part
    /\ pc' = "collect"
    /\ input_df' = df
    /\ futures' = submit(df)
    /\ workers' = [w \in Workers |-> NoWorker]
    /\ records' = <<>>
    /\ pbar' = 0
    /\ order' = <<>>
    /\ gppy_input_df' = <<>>
    /\ tool' = NoTool
    /\ g2t_df' = <<>>
    /\ final_df' = <<>>
    /\ UNCHANGED <<main_input_df, val_chroms, annotation, files, error>>

main_start ==
    /\ main_pc = "start"
    /\ IF val_chroms # {}
       THEN call_map("train", train_df(main_input_df, val_chroms))
       ELSE call_map("all", main_input_df)

\* main_val not waiting for the return of the train call: the val call
\* starts while the tool of the train call runs.
main_val_without_return ==
    /\ main_pc = "train"
    /\ pc = "tool_running"
    /\ call_map("val", val_df(main_input_df, val_chroms))

\* The train call has returned: the val call follows.
main_val ==
    /\ main_pc = "train"
    /\ pc = "returned"
    /\ call_map("val", val_df(main_input_df, val_chroms))

\* The last call has returned: main ends.
main_done ==
    /\ main_pc \in {"val", "all"}
    /\ pc = "returned"
    /\ main_pc' = "done"
    /\ pc' = "idle"
    /\ UNCHANGED <<main_input_df, val_chroms, annotation, input_df, futures, workers,
                   records, pbar, order, gppy_input_df, tool, g2t_df, final_df,
                   files, error>>

\* An exception leaves map_genomic_to_transcript and, uncaught in main,
\* ends the program.
raise(exc) ==
    /\ pc' = "raised"
    /\ error' = exc
    /\ UNCHANGED main_pc

(***************************************************************************)
(* The worker pool.                                                        *)
(***************************************************************************)
\* The initializer of a worker process: init_db opens the store.  The
\* processes of the pool are interchangeable; they are numbered in the
\* order in which their initializers run.
init_db(w) ==
    /\ pc = "collect"
    /\ workers[w].db = "unset"
    /\ \A v \in 1..(w - 1) : workers[v].db = "open"
    /\ workers' = [workers EXCEPT ![w].db = "open", ![w].opens = @ + 1]
    /\ UNCHANGED <<main_input_df, val_chroms, annotation, main_pc, pc, input_df,
                   futures, records, pbar, order, gppy_input_df, tool, g2t_df,
                   final_df, files, error>>

\* run_task on a pool created without initializer: the worker need not
\* have opened the store.
run_task_uninitialised(w, t) ==
    /\ pc = "collect"
    /\ t \in 1..Len(futures)
    /\ futures[t].state = "pending"
    /\ \E fault \in Faults :
         futures' = [futures EXCEPT ![t].state = "finished",
                                    ![t].fault = fault,
                                    ![t].outcome = process_row(futures[t].row, annotation, fault)]
    /\ workers' = [workers EXCEPT ![w].tasks = @ + 1]
    /\ UNCHANGED <<main_input_df, val_chroms, annotation, main_pc, pc, input_df,
                   records, pbar, order, gppy_input_df, tool, g2t_df,
                   final_df, files, error>>

\* Worker w, whose initializer has run, executes the task of future t:
\* process_row on the row, with the db of that process.
run_task(w, t) ==
    /\ pc = "collect"
    /\ workers[w].db = "open"
    /\ t \in 1..Len(futures)
    /\ futures[t].state = "pending"
    /\ \E fault \in Faults :
         futures' = [futures EXCEPT ![t].state = "finished",
                                    ![t].fault = fault,
                                    ![t].outcome = process_row(futures[t].row, annotation, fault)]
    /\ workers' = [workers EXCEPT ![w].tasks = @ + 1]
    /\ UNCHANGED <<main_input_df, val_chroms, annotation, main_pc, pc, input_df,
                   records, pbar, order, gppy_input_df, tool, g2t_df,
                   final_df, files, error>>

(***************************************************************************)
(* map_genomic_to_transcript: the collection loop.                         *)
(***************************************************************************)
\* collect with pbar.update(1) inside "if result:".
collect_count_nonempty(t) ==
    /\ pc = "collect"
    /\ t \in 1..Len(futures)
    /\ futures[t].state = "finished"
    /\ ~futures[t].collected
    /\ IF futures[t].outcome.raised
       THEN /\ raise("task")
            /\ workers' = [w \in Workers |-> NoWorker]
            /\ UNCHANGED <<futures, records, pbar, order>>
       ELSE /\ records' = records \o futures[t].outcome.value
            /\ pbar' = IF futures[t].outcome.value # <<>> THEN pbar + 1 ELSE pbar
            /\ order' = Append(order, t)
            /\ futures' = [futures EXCEPT ![t].collected = TRUE]
            /\ UNCHANGED <<pc, main_pc, error, workers>>
    /\ UNCHANGED <<main_input_df, val_chroms, annotation, input_df, gppy_input_df,
                   tool, g2t_df, final_df, files>>

\* collect assigning the result to records instead of extending it.
collect_overwrite(t) ==
    /\ pc = "collect"
    /\ t \in 1..Len(futures)
    /\ futures[t].state = "finished"
    /\ ~futures[t].collected
    /\ IF futures[t].outcome.raised
       THEN /\ raise("task")
            /\ workers' = [w \in Workers |-> NoWorker]
            /\ UNCHANGED <<futures, records, pbar, order>>
       ELSE /\ records' = futures[t].outcome.value
            /\ pbar' = pbar + 1
            /\ order' = Append(order, t)
            /\ futures' = [futures EXCEPT ![t].collected = TRUE]
            /\ UNCHANGED <<pc, main_pc, error, workers>>
    /\ UNCHANGED <<main_input_df, val_chroms, annotation, input_df, gppy_input_df,
                   tool, g2t_df, final_df, files>>

\* One iteration of "for future in as_completed(futures)": future.result()
\* returns the list or re-raises the exception of the task.
collect(t) ==
    /\ pc = "collect"
    /\ t \in 1..Len(futures)
    /\ futures[t].state = "finished"
    /\ ~futures[t].collected
    /\ IF futures[t].outcome.raised
       THEN /\ raise("task")
            /\ workers' = [w \in Workers |-> NoWorker]
            /\ UNCHANGED <<futures, records, pbar, order>>
       ELSE /\ records' = records \o futures[t].outcome.value
            /\ pbar' = pbar + 1
            /\ order' = Append(order, t)
            /\ futures' = [futures EXCEPT ![t].collected = TRUE]
            /\ UNCHANGED <<pc, main_pc, error, workers>>
    /\ UNCHANGED <<main_input_df, val_chroms, annotation, input_df, gppy_input_df,
                   tool, g2t_df, final_df, files>>

\* close_pool leaving the loop once a first result has been collected.
close_pool_first_completed ==
    /\ pc = "collect"
    /\ \/ futures = <<>>
       \/ \E t \in 1..Len(futures) : futures[t].collected
    /\ pc' = "write_input"
    /\ workers' = [w \in Workers |-> NoWorker]
    /\ UNCHANGED <<main_input_df, val_chroms, annotation, main_pc, input_df, futures,
                   records, pbar, order, gppy_input_df, tool, g2t_df, final_df,
                   files, error>>

\* as_completed is exhausted: the with blocks end and the pool shuts down.
close_pool ==
    /\ pc = "collect"
    /\ \A t \in 1..Len(futures) : futures[t].collected
    /\ pc' = "write_input"
    /\ workers' = [w \in Workers |-> NoWorker]
    /\ UNCHANGED <<main_input_df, val_chroms, annotation, main_pc, input_df, futures,
                   records, pbar, order, gppy_input_df, tool, g2t_df, final_df,
                   files, error>>

(***************************************************************************)
(* map_genomic_to_transcript: the tool input, the tool, the join.          *)
(***************************************************************************)
\* pd.DataFrame(records) and the selection of its two key columns: a frame
\* built from an empty list has no columns, and the selection raises.
write_input ==
    /\ pc = "write_input"
    /\ gppy_input_df' = records
    /\ IF records = <<>>
       THEN /\ raise("KeyError")
            /\ UNCHANGED files
       ELSE /\ files' = [files EXCEPT ![main_pc].gppy_input = File(to_csv_pairs(records))]
            /\ pc' = "run_tool"
            /\ UNCHANGED <<main_pc, error>>
    /\ UNCHANGED <<main_input_df, val_chroms, annotation, input_df, futures, workers,
                   records, pbar, order, tool, g2t_df, final_df>>

\* open(gppy_output_file, 'w') and the start of subprocess.run: the output
\* file is created empty; a missing gppy binary raises FileNotFoundError.
tool_start ==
    /\ pc = "run_tool"
    /\ files' = [files EXCEPT ![main_pc].gppy_output = File(<<>>)]
    /\ \/ /\ raise("FileNotFoundError")
          /\ UNCHANGED tool
       \/ /\ tool' = [state |-> "running", returncode |-> 0]
          /\ pc' = "tool_running"
          /\ UNCHANGED <<main_pc, error>>
    /\ UNCHANGED <<main_input_df, val_chroms, annotation, input_df, futures, workers,
                   records, pbar, order, gppy_input_df, g2t_df, final_df>>

\* The subprocess ends.  With return code 0 it has written its whole
\* output; with a non-zero code it has written any prefix of it.
\* subprocess.run returns in both cases (no check=True, and the return
\* code is not read).
tool_exit ==
    /\ pc = "tool_running"
    /\ \E rc \in {0, 1} :
       \E out \in (IF rc = 0 THEN {gppy_g2t(files[main_pc].gppy_input.rows)}
                   ELSE Prefixes(gppy_g2t(files[main_pc].gppy_input.rows))) :
          /\ tool' = [state |-> "exited", returncode |-> rc]
          /\ files' = [files EXCEPT ![main_pc].gppy_output = File(out)]
    /\ pc' = "read_output"
    /\ UNCHANGED <<main_input_df, val_chroms, annotation, main_pc, input_df, futures,
                   workers, records, pbar, order, gppy_input_df, g2t_df, final_df,
                   error>>

\* pd.read_csv(gppy_output_file, header=None): an empty file raises
\* EmptyDataError.
read_output ==
    /\ pc = "read_output"
    /\ IF files[main_pc].gppy_output.rows = <<>>
       THEN /\ raise("EmptyDataError")
            /\ UNCHANGED g2t_df
       ELSE /\ g2t_df' = files[main_pc].gppy_output.rows
            /\ pc' = "merge"
            /\ UNCHANGED <<main_pc, error>>
    /\ UNCHANGED <<main_input_df, val_chroms, annotation, input_df, futures, workers,
                   records, pbar, order, gppy_input_df, tool, final_df, files>>

\* The left join and the labeled output file; the call returns.
merge_step ==
    /\ pc = "merge"
    /\ final_df' = merge(g2t_df, gppy_input_df)
    /\ files' = [files EXCEPT ![main_pc].labeled = File(merge(g2t_df, gppy_input_df))]
    /\ pc' = "returned"
    /\ UNCHANGED <<main_input_df, val_chroms, annotation, main_pc, input_df, futures,
                   workers, records, pbar, order, gppy_input_df, tool, g2t_df, error>>

Next ==
    \/ main_start
    \/ main_val
    \/ main_done
    \/ \E w \in Workers : init_db(w)
    \/ \E w \in Workers, t \in 1..MaxRows : run_task(w, t)
    \/ \E t \in 1..MaxRows : collect(t)
    \/ close_pool
    \/ write_input
    \/ tool_start
    \/ tool_exit
    \/ read_output
    \/ merge_step

Spec == Init /\ [][Next]_vars

(***************************************************************************)
(* process_row alone: one submitted row on one initialised worker, any     *)
(* annotation content.                                                     *)
(***************************************************************************)
QueryRows == { row \in AllRows : row.chrom = "1" /\ row.label = "X" }

InitRow ==
    /\ main_input_df \in { <<row>> : row \in QueryRows }
    /\ val_chroms = {}
    /\ annotation \in SeqsOf(AllFeatures, 0, MaxFeatures)
    /\ main_pc = "all"
    /\ pc = "collect"
    /\ input_df = main_input_df
    /\ futures = submit(main_input_df)
    /\ workers = [w \in Workers |-> IF w = 1
                                     THEN [db |-> "open", opens |-> 1, tasks |-> 0]
                                     ELSE NoWorker]
    /\ records = <<>>
    /\ pbar = 0
    /\ order = <<>>
    /\ gppy_input_df = <<>>
    /\ tool = NoTool
    /\ g2t_df = <<>>
    /\ final_df = <<>>
    /\ files = [p \in Partitions |-> NoFiles]
    /\ error = "none"

NextRow == \E w \in Workers, t \in 1..MaxRows : run_task(w, t)

SpecRow == InitRow /\ [][NextRow]_vars

(***************************************************************************)
(* The join alone: any parsed tool output, any non-empty mapped frame.     *)
(***************************************************************************)
AllTransformed ==
    { TransformedRecord(t, p, tp, "exon") :
        t \in TranscriptIds, p \in Positions, tp \in {50, 51} }

AllMapped == { MappedRecord(t, p, l) : t \in TranscriptIds, p \in Positions, l \in Labels }

InitJoin ==
    /\ main_input_df = <<>>
    /\ val_chroms = {}
    /\ annotation = ExampleAnnotation
    /\ main_pc = "all"
    /\ pc = "merge"
    /\ input_df = <<>>
    /\ futures = <<>>
    /\ workers = [w \in Workers |-> NoWorker]
    /\ gppy_input_df \in SeqsOf(AllMapped, 1, MaxMapped)
    /\ records = gppy_input_df
    /\ pbar = 0
    /\ order = <<>>
    /\ tool = [state |-> "exited", returncode |-> 0]
    /\ g2t_df \in SeqsOf(AllTransformed, 1, MaxG2T)
    /\ final_df = <<>>
    /\ files = [p \in Partitions |->
                  IF p = "all"
                  THEN [gppy_input |-> File(to_csv_pairs(gppy_input_df)),
                        gppy_output |-> File(g2t_df), labeled |-> NoFile]
                  ELSE NoFiles]
    /\ error = "none"

NextJoin == merge_step

SpecJoin == InitJoin /\ [][NextJoin]_vars

(***************************************************************************)
(* The transform and the join alone: any collected list, from the end of   *)
(* the collection loop to the return of the call.                          *)
(***************************************************************************)
InitTransform ==
    /\ main_input_df = <<>>
    /\ val_chroms = {}
    /\ annotation = ExampleAnnotation
    /\ main_pc = "all"
    /\ pc = "write_input"
    /\ input_df = <<>>
    /\ futures = <<>>
    /\ workers = [w \in Workers |-> NoWorker]
    /\ records \in SeqsOf(AllMapped, 0, MaxMapped)
    /\ pbar = 0
    /\ order = <<>>
    /\ gppy_input_df = <<>>
    /\ tool = NoTool
    /\ g2t_df = <<>>
    /\ final_df = <<>>
    /\ files = [p \in Partitions |-> NoFiles]
    /\ error = "none"

NextTransform ==
    \/ write_input
    \/ tool_start
    \/ tool_exit
    \/ read_output
    \/ merge_step

SpecTransform == InitTransform /\ [][NextTransform]_vars

(***************************************************************************)
(* Properties.                                                             *)
(***************************************************************************)
Count(seq, x) == Cardinality({ k \in 1..Len(seq) : seq[k] = x })

Finished(t) == t \in 1..Len(futures) /\ futures[t].state = "finished"

\* The features of the store that are exons on the row's chromosome, cover
\* its position, lie on its strand and carry a transcript_id.
Hits(row) ==
    { i \in 1..Len(annotation) :
        /\ annotation[i].featuretype = "exon"
        /\ annotation[i].seqid = row.chrom
        /\ annotation[i].start <= row.pos
        /\ row.pos <= annotation[i].end
        /\ annotation[i].strand = row.strand
        /\ annotation[i].transcript_id \notin {None, ""} }

\* C1: when the store serves the query of a row, process_row returns exactly
\* one record (transcript_id, pos, label) per exon feature that covers
\* [pos, pos] on the row's chromosome, lies on the row's strand and carries
\* a transcript_id, and nothing else; no such feature, no record.
C1_OneRecordPerOverlappingExon ==
    \A t \in 1..Len(futures) :
        (Finished(t) /\ futures[t].fault = "none") =>
            LET row == futures[t].row
                out == futures[t].outcome
            IN  /\ ~out.raised
                /\ Len(out.value) = Cardinality(Hits(row))
                /\ \A tid \in TranscriptIds :
                       Cardinality({ k \in 1..Len(out.value) : out.value[k].transcript_id = tid })
                       = Cardinality({ i \in Hits(row) : annotation[i].transcript_id = tid })
                /\ \A k \in 1..Len(out.value) :
                       /\ out.value[k].transcript_id \in TranscriptIds
                       /\ out.value[k].genomic_position = row.pos
                       /\ out.value[k].label = row.label

\* The scenario of the claim: the "+" exon [900,1100] of T1 and the row
\* ("1", 1000, "+", "X") give [(T1, 1000, X)], next to a state where the
\* same exon read on "-" gave nothing.
C1_Witness ==
    /\ Len(futures) = 1
    /\ Finished(1)
    /\ futures[1].fault = "none"
    /\ futures[1].row = Row("1", 1000, "+", "X")
    /\ annotation = << Feature("1", 900, 1100, "+", "exon", "T1"),
                       Feature("1", 900, 1100, "-", "exon", "T2") >>
    /\ futures[1].outcome = Returned(<< MappedRecord("T1", 1000, "X") >>)

\* C2: every record held by a finished task or by the collected list has a
\* transcript_id that is not null, and the position and the label of the
\* input row it was produced from.
FromRow(rec, row) ==
    /\ rec.transcript_id # None
    /\ rec.transcript_id # ""
    /\ rec.genomic_position = row.pos
    /\ rec.label = row.label

C2_RecordsCarryRowFields ==
    /\ \A t \in 1..Len(futures) :
           \A k \in 1..Len(futures[t].outcome.value) :
               FromRow(futures[t].outcome.value[k], futures[t].row)
    /\ \A k \in 1..Len(records) :
           \E t \in 1..Len(futures) :
               /\ futures[t].collected
               /\ Count(futures[t].outcome.value, records[k]) > 0
               /\ FromRow(records[k], futures[t].row)

\* A row covered by the exon that lacks transcript_id has been collected
\* with its records.
C2_Witness ==
    /\ records # <<>>
    /\ \E t \in 1..Len(futures) :
           /\ futures[t].collected
           /\ futures[t].outcome.value # <<>>
           /\ \E i \in 1..Len(annotation) :
                  /\ annotation[i].transcript_id = None
                  /\ annotation[i].featuretype = "exon"
                  /\ annotation[i].strand = futures[t].row.strand
                  /\ Overlaps(annotation[i], futures[t].row.chrom,
                              futures[t].row.pos, futures[t].row.pos)

\* C3: a task whose store raised while serving the query has returned the
\* empty list, and no run is ended by the exception of a task.
C3_StoreErrorContained ==
    /\ \A t \in 1..Len(futures) :
           (Finished(t) /\ futures[t].fault # "none") => futures[t].outcome = Returned(<<>>)
    /\ ~(pc = "raised" /\ error = "task")

\* C4: when a task has failed with an exception, the call does not end
\* with that exception: the loop skips the task, and the records collected
\* from the other tasks stay on their way to the transform step.
C4_TaskFailureSkipped ==
    \A t \in 1..Len(futures) :
        (Finished(t) /\ futures[t].outcome.raised) => (pc # "raised" /\ error = "none")

\* C5: the coordinator is past the collection loop only when every
\* submitted task has completed and been collected, the tool input of the
\* call is not written before that, and the collected list then holds the
\* records of every row exactly once.
PastLoop == pc \in {"write_input", "run_tool", "tool_running", "read_output", "merge", "returned"}

RECURSIVE TotalCount(_, _)
TotalCount(t, rec) ==
    IF t = 0 THEN 0 ELSE Count(futures[t].outcome.value, rec) + TotalCount(t - 1, rec)

C5_BarrierCollectsEachRowOnce ==
    /\ pc = "collect" => ~files[main_pc].gppy_input.exists
    /\ PastLoop =>
           /\ \A t \in 1..Len(futures) : Finished(t) /\ futures[t].collected
           /\ \A rec \in AllMapped : Count(records, rec) = TotalCount(Len(futures), rec)
           /\ Len(records) = Len(Concat([t \in 1..Len(futures) |-> futures[t].outcome.value]))

\* Two rows with records, collected in the reverse of the submission order.
C5_Witness ==
    /\ pc = "write_input"
    /\ order = <<2, 1>>
    /\ futures[1].outcome.value # <<>>
    /\ futures[2].outcome.value # <<>>

\* C6: after the join, every row of the tool output whose key is in the
\* mapped frame has, per occurrence, at least one final row with a label and
\* none without; every row whose key is absent has, per occurrence, exactly
\* one final row, without label; no row of the tool output is dropped.
Fields(f) == TransformedRecord(f.transcript_id, f.genomic_position, f.transcript_position, f.feature)

KeyInMapped(g) == \E j \in 1..Len(gppy_input_df) : SameKey(g, gppy_input_df[j])

FinalOf(g) == { k \in 1..Len(final_df) : Fields(final_df[k]) = g }

C6_JoinCompleteness ==
    pc = "returned" =>
        \A i \in 1..Len(g2t_df) :
            LET g == g2t_df[i]
            IN  /\ FinalOf(g) # {}
                /\ IF KeyInMapped(g)
                   THEN /\ Cardinality(FinalOf(g)) >= Count(g2t_df, g)
                        /\ \A k \in FinalOf(g) : final_df[k].label \in Labels
                   ELSE /\ Cardinality(FinalOf(g)) = Count(g2t_df, g)
                        /\ \A k \in FinalOf(g) : final_df[k].label = NaN

\* A join of a tool output with one row whose key is mapped and one row
\* whose key is not.
C6_Witness ==
    /\ pc = "returned"
    /\ Len(g2t_df) = 2
    /\ KeyInMapped(g2t_df[1])
    /\ ~KeyInMapped(g2t_df[2])
    /\ Len(final_df) >= 2

\* C7: when the tool output holds a single row with key K, the final rows
\* with key K are, label by label, as many as the mapped rows with key K and
\* that label, and all carry the transcript_position and feature of that
\* row: two labels give two final rows, equal mapped rows are not merged.
KeyCount(df, g) == Cardinality({ k \in 1..Len(df) : SameKey(g, df[k]) })

C7_FanOut ==
    pc = "returned" =>
        \A i \in 1..Len(g2t_df) :
            LET g == g2t_df[i]
            IN  (KeyCount(g2t_df, g) = 1 /\ KeyInMapped(g)) =>
                    /\ KeyCount(final_df, g) = KeyCount(gppy_input_df, g)
                    /\ \A l \in Labels :
                           Count(final_df, FinalRecord(g, l))
                           = Count(gppy_input_df, MappedRecord(g.transcript_id, g.genomic_position, l))
                    /\ \A k \in 1..Len(final_df) :
                           SameKey(g, final_df[k]) => Fields(final_df[k]) = g

\* The scenario of the claim: X and Y at (T1, 1000), the tool row
\* (T1, 1000, 50, exon).
C7_Witness ==
    /\ pc = "returned"
    /\ g2t_df = << TransformedRecord("T1", 1000, 50, "exon") >>
    /\ gppy_input_df = << MappedRecord("T1", 1000, "X"), MappedRecord("T1", 1000, "Y") >>
    /\ final_df = << FinalRecord(g2t_df[1], "X"), FinalRecord(g2t_df[1], "Y") >>

\* C8: when the tool has exited with a non-zero code, the call is not at or
\* past the join: its output is not parsed into g2t_df and no labeled table
\* is written by this call.
C8_ToolFailureFatal ==
    (tool.state = "exited" /\ tool.returncode # 0) =>
        /\ pc \notin {"merge", "returned"}
        /\ g2t_df = <<>>
        /\ main_pc \in Partitions => ~files[main_pc].labeled.exists

\* C9: with val_chroms, the program does not end before the val call has
\* been made, whatever happened in the train call; and a val call that
\* failed leaves the three train files in place.
Ended == pc = "raised" \/ main_pc = "done"

C9_PartitionsIndependent ==
    /\ (val_chroms # {} /\ Ended) => main_pc \in {"val", "done"}
    /\ (pc = "raised" /\ main_pc = "val") =>
           /\ files["train"].gppy_input.exists
           /\ files["train"].gppy_output.exists
           /\ files["train"].labeled.exists

\* C10: in the train call exactly the rows whose chromosome is not in
\* val_chroms are submitted, each as often as it is in the input table, and
\* in the val call exactly the rows whose chromosome is in val_chroms; every
\* collected record comes from a row of the partition of the call.
Submitted(row) == Cardinality({ t \in 1..Len(futures) : futures[t].row = row })

C10_Partitioning ==
    /\ main_pc = "train" =>
           \A row \in AllRows :
               Submitted(row) = IF row.chrom \in val_chroms THEN 0 ELSE Count(main_input_df, row)
    /\ main_pc = "val" =>
           \A row \in AllRows :
               Submitted(row) = IF row.chrom \in val_chroms THEN Count(main_input_df, row) ELSE 0
    /\ main_pc \in {"train", "val"} =>
           \A k \in 1..Len(records) :
               \E t \in 1..Len(futures) :
                   /\ futures[t].collected
                   /\ Count(futures[t].outcome.value, records[k]) > 0
                   /\ (futures[t].row.chrom \in val_chroms) <=> (main_pc = "val")

\* A table with one row of a validation chromosome and one other row: the
\* train call has written its files and the val call has returned.
C10_Witness ==
    /\ main_pc = "val"
    /\ pc = "returned"
    /\ Len(main_input_df) = 2
    /\ Len(futures) = 1
    /\ futures[1].row.chrom \in val_chroms
    /\ files["train"].labeled.exists
    /\ files["val"].labeled.exists

\* The run in which the tasks complete in submission order, the store
\* serves every query and the tool writes its whole output: the collected
\* list and the final table of that run.
InOrderRecords ==
    Concat([t \in 1..Len(input_df) |-> process_row(input_df[t], annotation, "none").value])

InOrderFinal == merge(gppy_g2t(to_csv_pairs(InOrderRecords)), InOrderRecords)

\* The call has returned after a run without store fault and with a tool
\* that exited with code 0.
CleanRun ==
    /\ pc = "returned"
    /\ tool.returncode = 0
    /\ \A t \in 1..Len(futures) : futures[t].fault = "none"

\* C11: whatever the completion order of the tasks, the final table of a
\* run with a deterministic tool holds the same FinalRecords, each as often,
\* as the final table of the run that completes in submission order; two
\* runs on the same input therefore agree up to the order of the rows.
C11_SameFinalRecordsForEveryOrder ==
    CleanRun =>
        /\ Len(final_df) = Len(InOrderFinal)
        /\ \A k \in 1..Len(InOrderFinal) :
               Count(final_df, InOrderFinal[k]) = Count(InOrderFinal, InOrderFinal[k])

\* Two rows with records were collected in the reverse of the submission
\* order, and the final table lists its rows in another order.
C11_Witness ==
    /\ CleanRun
    /\ order = <<2, 1>>
    /\ final_df # InOrderFinal

\* C12: the final table lists its rows in the same order for every
\* completion order of the tasks: in the order of the run that completes
\* in submission order.
C12_SameRowOrderForEveryOrder == CleanRun => final_df = InOrderFinal

\* C13: a worker process has opened the store at most once, and holds an
\* open db exactly when it has; a worker that has executed tasks, however
\* many, holds the db it opened once; while the pool lives, every finished
\* task has been executed by one worker of the pool.
RECURSIVE TasksExecuted(_)
TasksExecuted(w) == IF w = 0 THEN 0 ELSE workers[w].tasks + TasksExecuted(w - 1)

C13_OneHandlePerWorker ==
    /\ \A w \in Workers :
           /\ workers[w].opens <= 1
           /\ workers[w].db = "open" <=> workers[w].opens = 1
           /\ workers[w].tasks > 0 => (workers[w].db = "open" /\ workers[w].opens = 1)
    /\ pc = "collect" =>
           TasksExecuted(MaxWorkers) = Cardinality({ t \in 1..Len(futures) : Finished(t) })

\* Both workers have opened their store and one of them has executed two
\* tasks.
C13_Witness ==
    /\ pc = "collect"
    /\ \A w \in Workers : workers[w].db = "open"
    /\ \E w \in Workers : workers[w].tasks = 2 /\ workers[w].opens = 1

\* C14: the progress count of a call starts at 0; a step of the call leaves
\* it or adds one, and adds one exactly when a result is collected, empty
\* or not; during the loop it is the number of collected futures, at most
\* the number submitted, and after the loop it is the number submitted.
Collected == { t \in 1..Len(futures) : futures[t].collected }

ProgressCount ==
    /\ pc = "collect" => (pbar = Cardinality(Collected) /\ pbar <= Len(futures))
    /\ PastLoop => pbar = Len(futures)

ProgressStep ==
    IF pc # "collect" /\ pc' = "collect"
    THEN pbar' = 0
    ELSE /\ pbar' \in {pbar, pbar + 1}
         /\ pbar' = pbar + 1 <=> order' # order

C14_ProgressMonotonic == []ProgressCount /\ [][ProgressStep]_vars

\* The loop has ended after two collected results, one of them empty.
C14_Witness ==
    /\ PastLoop
    /\ pbar = 2
    /\ \E t \in 1..Len(futures) : futures[t].outcome.value = <<>>
    /\ \E t \in 1..Len(futures) : futures[t].outcome.value # <<>>

\* C15: once written, the tool input of the call holds one line per
\* collected record, in the order of the list: the transcript_id and the
\* genomic_position of that record, with no header line and no line left
\* out; a pair shared by k records is written k times.
InputWritten == pc \in {"run_tool", "tool_running", "read_output", "merge", "returned"}

C15_OneLinePerRecord ==
    InputWritten =>
        /\ files[main_pc].gppy_input.exists
        /\ Len(files[main_pc].gppy_input.rows) = Len(records)
        /\ \A k \in 1..Len(records) :
               files[main_pc].gppy_input.rows[k]
               = <<records[k].transcript_id, records[k].genomic_position>>

\* Two collected records share their pair and differ in the label: the
\* pair is in the tool input twice.
C15_Witness ==
    /\ InputWritten
    /\ Len(records) = 2
    /\ SameKey(records[1], records[2])
    /\ records[1].label # records[2].label
    /\ files[main_pc].gppy_input.rows[1] = files[main_pc].gppy_input.rows[2]

\* The final table of the same call had the pairs been deduplicated before
\* the tool: the tool answers each distinct pair once, the join is the same.
KeyPairs(df) == [k \in 1..Len(df) |-> <<df[k].transcript_id, df[k].genomic_position>>]

DedupFinal ==
    merge(gppy_g2t(drop_duplicates(KeyPairs(gppy_input_df), LAMBDA a, b : a = b)), gppy_input_df)

ToolRanWhole == pc = "returned" /\ tool.returncode = 0

\* C16 as stated: with a tool that answers every input line, the final
\* table holds the same FinalRecords, each as often, whether the pairs are
\* submitted as given or deduplicated.
C16_DedupSameFinalTable ==
    ToolRanWhole =>
        /\ Len(final_df) = Len(DedupFinal)
        /\ \A k \in 1..Len(DedupFinal) :
               Count(final_df, DedupFinal[k]) = Count(DedupFinal, DedupFinal[k])

\* C16 as amended: the two tables hold the same distinct FinalRecords, and
\* with the pairs as given a FinalRecord is in the table k times as often
\* as with deduplicated pairs, k the number of mapped records with its key.
Range(seq) == { seq[k] : k \in 1..Len(seq) }

C16_DedupSameDistinctRecords ==
    ToolRanWhole =>
        /\ Range(final_df) = Range(DedupFinal)
        /\ \A k \in 1..Len(DedupFinal) :
               Count(final_df, DedupFinal[k])
               = KeyCount(gppy_input_df, DedupFinal[k]) * Count(DedupFinal, DedupFinal[k])

\* Two labels share one key: four final rows with the pairs as given, two
\* with deduplicated pairs.
C16_Witness ==
    /\ ToolRanWhole
    /\ Len(gppy_input_df) = 2
    /\ SameKey(gppy_input_df[1], gppy_input_df[2])
    /\ gppy_input_df[1].label # gppy_input_df[2].label
    /\ Len(final_df) = 4
    /\ Len(DedupFinal) = 2

\* C17: the stages of a call follow one another.  While the tool runs, the
\* call waits for it, every task has been collected, the pool is shut down
\* and the tool input is written; during the collection no tool exists;
\* the output is read and joined only after the tool has exited; a tool is
\* started only when none runs; the val call starts only after the train
\* call has returned with its labeled table written.
StagesInOrder ==
    /\ tool.state = "running" =>
           /\ pc = "tool_running"
           /\ \A t \in 1..Len(futures) : futures[t].state = "finished" /\ futures[t].collected
           /\ \A w \in Workers : workers[w].db = "unset"
           /\ files[main_pc].gppy_input.exists
    /\ pc = "tool_running" => tool.state = "running"
    /\ pc \in {"collect", "write_input", "run_tool"} => tool.state = "none"
    /\ (\E w \in Workers : workers[w].db = "open") => (pc = "collect" /\ tool.state = "none")
    /\ pc \in {"read_output", "merge", "returned"} => tool.state = "exited"
    /\ (g2t_df # <<>> \/ final_df # <<>>) => tool.state = "exited"
    /\ main_pc = "val" => files["train"].labeled.exists

StageStep ==
    /\ (tool'.state = "running" /\ tool.state # "running") =>
           (tool.state = "none" /\ pc = "run_tool")
    /\ (main_pc' = "val" /\ main_pc # "val") =>
           (main_pc = "train" /\ pc = "returned" /\ tool.state = "exited")

C17_StagesSequential == []StagesInOrder /\ [][StageStep]_vars

\* The tool of the val call runs after the train call has written its
\* labeled table.
C17_Witness ==
    /\ main_pc = "val"
    /\ tool.state = "running"
    /\ Len(futures) >= 1
    /\ files["train"].labeled.exists

\* C18: a call whose tasks have all been collected without any record does
\* not end with an exception: the empty tool input is written and the call
\* goes on to its return.
NoRecordCollected ==
    /\ records = <<>>
    /\ \A t \in 1..Len(futures) : futures[t].collected

C18_EmptyPartitionReturns ==
    NoRecordCollected =>
        /\ pc # "raised"
        /\ pc \notin {"idle", "collect", "write_input"} => files[main_pc].gppy_input.exists

====
